---- MODULE Spec2Model ----
(***************************************************************************)
(* Job-state reconciliation of the dashboard (src/dashboard.py), served by *)
(* the threaded HTTP server of src/web.py.                                 *)
(*                                                                         *)
(* A Job is a dict: here a function from a set of keys to values.  A       *)
(* JobList is a dict JobId -> (job, timestamp) that keeps insertion order: *)
(* here a sequence of entries [job, ts] with pairwise distinct JobIds.     *)
(* datetime values are integer clock ticks; None is NoTimestamp.           *)
(***************************************************************************)
EXTENDS Integers, Sequences, FiniteSets, TLC

\* ------------------------------------------------------------- bounds
MaxClock == 2          \* the clock runs from 0 to MaxClock ticks
MaxRows == 2           \* rows one sacct / squeue call delivers at most
MaxDrafts == 2         \* drafts in one list handed to JobList.update
MaxTask == 3           \* the highest task id of a job array
MaxItems == 2          \* ids and ranges in one array spec

\* ---------------------------------------------------- program constants
NoTimestamp == -1      \* timestamp=None
TicksPerSecond == 2    \* strftime('%Y%m%d%H%M%S') keeps whole seconds

STALE_STATES == {"COMPLETED", "CANCELLED", "FAILED", "TIMEOUT"}

\* ---------------------------------------------------------- the world
JobIds == {"100", "200"}

\* The jobs submitted through the logging wrapper; the others are known to
\* the scheduler only.
LoggedIds == {"100"}

\* The name each submission gives its job with -J; sacct and squeue report
\* the same name.  "clean-en-wide" matches the first naming pattern of
\* Job.__init__, "interactive" matches none.
NameOf(id) == IF id = "100" THEN "clean-en-wide" ELSE "interactive"

\* The request threads of the ThreadingHTTPServer, one per request.
Threads == {"t1", "t2"}
Clock == 0..MaxClock

\* ------------------------------------------------------------ Job, match
\* Job.__init__: step, language and collection are set together, and only
\* when JobName matches one of the three naming patterns.
MatchingNames == {"clean-en-wide", "reduce-tmx-en", "warc2text-wide"}

HasClassification(job) ==
    "JobName" \in DOMAIN job /\ job["JobName"] \in MatchingNames

\* set(job.items()) - set(current.items()) is not empty
ItemsDiffer(job, current) ==
    \E k \in DOMAIN job : k \notin DOMAIN current \/ current[k] # job[k]

\* As DictUnion, but the keys only the current record holds are dropped.
DictUnionOfDraft(current, job) == job

\* {**current, **job}
DictUnion(current, job) ==
    [k \in DOMAIN current \cup DOMAIN job |->
        IF k \in DOMAIN job THEN job[k] ELSE current[k]]

\* ---------------------------------------------------------------- JobList
JobIdsOf(jobs) == {jobs[i].job["JobId"] : i \in 1..Len(jobs)}

IndexOf(jobs, id) == CHOOSE i \in 1..Len(jobs) : jobs[i].job["JobId"] = id

\* As MergedTimestamp, but the entry keeps its timestamp whatever the call gives.
MergedTimestampKept(current_timestamp, job_timestamp) == current_timestamp

\* The timestamp a changed entry gets.
MergedTimestamp(current_timestamp, job_timestamp) ==
    IF job_timestamp = NoTimestamp THEN current_timestamp ELSE job_timestamp

\* As EntryChanges, but every draft of a known id replaces the entry.
EntryChangesAlways(job, current) == TRUE

\* The test that decides whether an existing entry is replaced.
EntryChanges(job, current) == ItemsDiffer(job, current)

\* One iteration of the loop of JobList.update.
UpdateOne(jobs, job, job_timestamp) ==
    IF job["JobId"] \in JobIdsOf(jobs)
    THEN LET i == IndexOf(jobs, job["JobId"])
             current == jobs[i].job
             current_timestamp == jobs[i].ts
         IN  IF EntryChanges(job, current)
             THEN [jobs EXCEPT ![i] =
                     [job |-> DictUnion(current, job),
                      ts |-> MergedTimestamp(current_timestamp, job_timestamp)]]
             ELSE jobs
    ELSE Append(jobs, [job |-> job, ts |-> job_timestamp])

\* jobs_iter of JobList.update: a JobList given without a timestamp brings
\* its own timestamps, anything else is stamped with `timestamp`.
\* drafts is a sequence of entries; is_job_list tells a JobList from a list.
JobsIter(drafts, is_job_list, timestamp) ==
    IF is_job_list /\ timestamp = NoTimestamp
    THEN drafts
    ELSE [i \in 1..Len(drafts) |-> [job |-> drafts[i].job, ts |-> timestamp]]

RECURSIVE UpdateAll(_, _)
UpdateAll(jobs, jobs_iter) ==
    IF jobs_iter = << >> THEN jobs
    ELSE UpdateAll(UpdateOne(jobs, Head(jobs_iter).job, Head(jobs_iter).ts),
                   Tail(jobs_iter))

\* JobList.update(jobs, timestamp) for a plain list of drafts.
Update(self_jobs, drafts, timestamp) ==
    UpdateAll(self_jobs,
              JobsIter([i \in 1..Len(drafts) |-> [job |-> drafts[i], ts |-> NoTimestamp]],
                       FALSE, timestamp))

\* The predicate of State.update's filter.
IsActive(job) == "State" \notin DOMAIN job \/ job["State"] \notin STALE_STATES

\* JobList.filter(op) with op = IsActive and timestamp=None.
FilterActive(jobs) ==
    LET Keep(e) == IsActive(e.job) IN SelectSeq(jobs, Keep)

\* ---------------------------------------------------------------- sources
\* strftime('%Y%m%d%H%M%S'): the whole second of a clock value.
Strftime(t) == t \div TicksPerSecond

\* A log line: <timestamp> <jobId> -J <name> ...
LogDraft(line) ==
    [JobId |-> line.job_id, State |-> "PENDING", JobName |-> NameOf(line.job_id)]

\* Slurm.scheduled_jobs(since): the lines not older than since, in file order.
RECURSIVE ScheduledJobsOf(_, _)
ScheduledJobsOf(lines, since) ==
    IF lines = << >> THEN << >>
    ELSE LET rest == ScheduledJobsOf(Tail(lines), since)
         IN  IF Head(lines).timestamp >= Strftime(since)
             THEN << LogDraft(Head(lines)) >> \o rest
             ELSE rest

\* A row of sacct or squeue as the adapter yields it.
Row(id, st) == [JobId |-> id, State |-> st, JobName |-> NameOf(id)]

AccountingStates == {"COMPLETED"}
CurrentStates == {"RUNNING"}

\* The outputs one call can deliver: up to MaxRows rows with distinct ids
\* from scope.
RowSeqs(scope, states) ==
    {s \in UNION {[1..n -> {Row(id, st) : id \in scope, st \in states}]
                    : n \in 0..MaxRows} :
        \A i, j \in 1..Len(s) : i # j => s[i]["JobId"] # s[j]["JobId"]}

IdsOf(drafts) == {drafts[i]["JobId"] : i \in 1..Len(drafts)}

\* ------------------------------------------------------------------ state
VARIABLES
    now,          \* the wall clock, what datetime.now() returns
    log,          \* the lines of .schedule-log, in file order
    jobs,         \* state.jobs, the long-lived JobList
    last_update,  \* state.last_update
    pc,           \* where each request thread is
    active_jobs,  \* State.update's local active_jobs, per thread
    seen_jobs,    \* State.update's local seen_jobs, per thread
    new_update,   \* State.update's local last_update, per thread
    pos,          \* the entry the commit loop of a thread merges next
    failed,       \* the source whose call raised in a thread, or "none"
    response,     \* the JSON body a thread is about to write, or NoResponse
    overlapped,   \* whether another thread wrote state.jobs during this cycle
    wrote         \* whether the commit loop of a thread has changed state.jobs

\* A JobList of its own, for JobList.update taken alone.
VARIABLES
    m_jobs,       \* self.jobs of the JobList
    m_drafts,     \* the argument jobs: a sequence of entries [job, ts]
    m_is_job_list,\* whether the argument is a JobList (else a plain list)
    m_iter,       \* what is left of jobs_iter
    m_round,      \* 0 before the first call, 1 in or after it, 2 in or after the second
    m_t,          \* the timestamp argument of the call in progress
    m_before,     \* self.jobs before the first call
    m_after       \* self.jobs after the first call

\* State.get_job taken alone.
VARIABLES
    g_id,         \* the job_id State.get_job was last called with, or NoId
    g_outcome,    \* how that call ended: "returned" or "KeyError"; "idle" before
    g_job         \* the dict the call returned, or NoJob

\* The source adapters of Slurm taken alone.
VARIABLES
    p_src,        \* the source that delivers: "log", "squeue" or "sacct"
    p_shape,      \* what was submitted or reported
    p_input,      \* the line or row as the adapter finds it
    p_out,        \* what the adapter yielded, and whether it raised
    p_done        \* whether the adapter has run

\* JobList.filter taken alone.
VARIABLES
    f_jobs,       \* self.jobs of the JobList that is filtered
    f_op,         \* the predicate op, as the set of dicts it accepts
    f_timestamp,  \* the timestamp argument, NoTimestamp for None
    f_out,        \* the jobs of the JobList filter returned
    f_done        \* whether filter has returned

\* A client that polls /jobs/delta/<timestamp> with the timestamp it got last.
VARIABLES
    c_since,      \* the timestamp of the last answer the client got, or NoTimestamp
    c_table       \* state.jobs as that answer enumerated it

sysvars == << now, log, jobs, last_update, pc, active_jobs, seen_jobs, new_update,
              pos, failed, response, overlapped, wrote >>

mvars == << m_jobs, m_drafts, m_is_job_list, m_iter, m_round, m_t, m_before, m_after >>

gvars == << g_id, g_outcome, g_job >>

\* The variables outside the server and the lone JobList.
pvars == << p_src, p_shape, p_input, p_out, p_done >>

fvars == << f_jobs, f_op, f_timestamp, f_out, f_done >>

cvars == << c_since, c_table >>

xvars == << gvars, pvars, fvars, cvars >>

vars == << sysvars, mvars, xvars >>

NoId == "none"
NoJob == [JobId |-> NoId]

\* No adapter is part of the run.
ParseIdle ==
    /\ p_src = "none"
    /\ p_shape = << >>
    /\ p_input = << >>
    /\ p_out = [raised |-> FALSE, out |-> << >>]
    /\ p_done = FALSE

\* No filter call is part of the run.
FilterIdle ==
    /\ f_jobs = << >>
    /\ f_op = {}
    /\ f_timestamp = NoTimestamp
    /\ f_out = << >>
    /\ f_done = FALSE

\* No polling client is part of the run.
PollIdle ==
    /\ c_since = NoTimestamp
    /\ c_table = << >>

\* No lookup is part of the run.
LookupIdle ==
    /\ g_id = NoId
    /\ g_outcome = "idle"
    /\ g_job = NoJob

\* The JobList taken alone is not part of the server.
MergeIdle ==
    /\ m_jobs = << >>
    /\ m_drafts = << >>
    /\ m_is_job_list = FALSE
    /\ m_iter = << >>
    /\ m_round = 0
    /\ m_t = NoTimestamp
    /\ m_before = << >>
    /\ m_after = << >>

NoResponse == [timestamp |-> NoTimestamp, since |-> NoTimestamp, jobs |-> {}]

\* slurm.jobs(since, include_completed=True): the log's drafts keyed by
\* JobId, each row of sacct and then of squeue merged into the draft of its
\* id with dict.update, or added; list(scheduled.values()).
RECURSIVE MergeRows(_, _)
MergeRows(scheduled, rows) ==
    IF rows = << >> THEN scheduled
    ELSE LET row == Head(rows)
             hit == {i \in 1..Len(scheduled) : scheduled[i]["JobId"] = row["JobId"]}
         IN  MergeRows(IF hit = {} THEN Append(scheduled, row)
                       ELSE [i \in 1..Len(scheduled) |->
                               IF i \in hit THEN DictUnion(scheduled[i], row)
                               ELSE scheduled[i]],
                       Tail(rows))

SlurmJobs(lines, accounting, current) ==
    MergeRows(MergeRows([i \in 1..Len(lines) |-> LogDraft(lines[i])], accounting), current)

\* JobList.__init__(jobs, timestamp)
JobListInit(job_list, timestamp) ==
    [i \in 1..Len(job_list) |-> [job |-> job_list[i], ts |-> timestamp]]

\* The log as State.__init__ finds it: empty, or with the line of a job
\* submitted in the second before start-up.
BootstrapLogs ==
    {<< >>} \cup {<< [timestamp |-> -1, job_id |-> id] >> : id \in LoggedIds}

\* State.__init__: last_update = datetime.now(), then
\* jobs = JobList(slurm.jobs(...), timestamp=last_update); sacct is asked
\* for the logged ids, squeue for everything.
Init ==
    /\ MergeIdle
    /\ LookupIdle
    /\ ParseIdle
    /\ FilterIdle
    /\ PollIdle
    /\ now = 0
    /\ last_update = 0
    /\ log \in BootstrapLogs
    /\ \E accounting \in RowSeqs({log[i].job_id : i \in 1..Len(log)}, AccountingStates),
          current \in RowSeqs(JobIds, CurrentStates) :
          jobs = JobListInit(SlurmJobs(log, accounting, current), last_update)
    /\ pc = [t \in Threads |-> "new"]
    /\ active_jobs = [t \in Threads |-> << >>]
    /\ seen_jobs = [t \in Threads |-> {}]
    /\ new_update = [t \in Threads |-> NoTimestamp]
    /\ pos = [t \in Threads |-> 0]
    /\ failed = [t \in Threads |-> "none"]
    /\ response = [t \in Threads |-> NoResponse]
    /\ overlapped = [t \in Threads |-> FALSE]
    /\ wrote = [t \in Threads |-> FALSE]

\* ------------------------------------------------------------ environment
\* datetime.now(): the clock never runs backwards, and it is looked at only
\* when it is read, so time passes in the step that reads it.
ClockReadings == now..MaxClock

\* The submission wrapper appends one line; a job id is given out once.
Submit(id) ==
    /\ \A i \in 1..Len(log) : log[i].job_id # id
    /\ id \notin JobIdsOf(jobs)
    /\ \E t \in ClockReadings :
          /\ now' = t
          /\ log' = Append(log, [timestamp |-> Strftime(t), job_id |-> id])
    /\ UNCHANGED << mvars, xvars, jobs, last_update, pc, active_jobs, seen_jobs,
                    new_update, pos, failed, response, overlapped, wrote >>

\* ---------------------------------------------------------- State.update
\* A source call raises: the exception leaves State.update and list_jobs.
Raise(t, source) ==
    /\ pc' = [pc EXCEPT ![t] = "raised"]
    /\ failed' = [failed EXCEPT ![t] = source]
    /\ UNCHANGED << mvars, xvars, now, log, jobs, last_update, active_jobs, seen_jobs,
                    new_update, pos, response, overlapped, wrote >>

\* ThreadingHTTPServer starts one thread per request.  The threads are
\* named in the order in which their requests arrive.
Arrived(t) == t = "t1" \/ pc["t1"] # "new"

\* GET /jobs/ arrives; list_jobs calls state.update(), which filters.
BeginUpdate(t) ==
    /\ pc[t] = "new"
    /\ Arrived(t)
    /\ pc' = [pc EXCEPT ![t] = "scheduled"]
    /\ active_jobs' = [active_jobs EXCEPT ![t] = FilterActive(jobs)]
    /\ seen_jobs' = [seen_jobs EXCEPT ![t] = {}]
    /\ overlapped' = [overlapped EXCEPT ![t] = FALSE]
    /\ UNCHANGED << mvars, xvars, now, log, jobs, last_update, new_update, pos, failed,
                    response, wrote >>

\* As Pull, but the scratch table shares its entries with state.jobs: what
\* is merged into the one is merged into the other.
PullShared(t, drafts, next) ==
    /\ active_jobs' = [active_jobs EXCEPT ![t] = Update(@, drafts, NoTimestamp)]
    /\ jobs' = Update(jobs, drafts, NoTimestamp)
    /\ seen_jobs' = [seen_jobs EXCEPT ![t] = @ \cup IdsOf(drafts)]
    /\ pc' = [pc EXCEPT ![t] = next]
    /\ UNCHANGED << mvars, xvars, now, log, last_update, new_update, pos, failed,
                    response, overlapped, wrote >>

\* One source's drafts go through add_jobs_to_set into active_jobs.update.
Pull(t, drafts, next) ==
    /\ active_jobs' = [active_jobs EXCEPT ![t] = Update(@, drafts, NoTimestamp)]
    /\ seen_jobs' = [seen_jobs EXCEPT ![t] = @ \cup IdsOf(drafts)]
    /\ pc' = [pc EXCEPT ![t] = next]
    /\ UNCHANGED << mvars, xvars, now, log, jobs, last_update, new_update, pos, failed,
                    response, overlapped, wrote >>

ScheduledJobs(t) ==
    /\ pc[t] = "scheduled"
    /\ \/ Pull(t, ScheduledJobsOf(log, last_update), "accounting")
       \/ Raise(t, "scheduled_jobs")

\* As DeadDrafts, with the test on seen_jobs inverted.
DeadDraftsOfSeen(scratch, seen) ==
    LET Dead(e) == e.job["JobId"] \in seen
        dead == SelectSeq(scratch, Dead)
    IN  [i \in 1..Len(dead) |-> [JobId |-> dead[i].job["JobId"], State |-> "CANCELLED"]]

\* The drafts of "Remove dead jobs", in the order of active_jobs.
DeadDrafts(scratch, seen) ==
    LET Dead(e) == e.job["JobId"] \notin seen
        dead == SelectSeq(scratch, Dead)
    IN  [i \in 1..Len(dead) |-> [JobId |-> dead[i].job["JobId"], State |-> "CANCELLED"]]

\* The scratch table after sacct's rows, squeue's rows and the dead jobs.
Reconciled(scratch, seen, accounting, current) ==
    LET a1 == Update(scratch, accounting, NoTimestamp)
        a2 == Update(a1, current, NoTimestamp)
    IN  Update(a2, DeadDrafts(a2, seen \cup IdsOf(accounting) \cup IdsOf(current)),
               NoTimestamp)

\* sacct scoped to the ids of active_jobs, squeue unscoped, the dead jobs,
\* then last_update = datetime.now().  Neither query reads the program's
\* state, so the three are one step; either query may raise.
QueryScheduler(t) ==
    /\ pc[t] = "accounting"
    /\ \/ \E accounting \in RowSeqs(JobIdsOf(active_jobs[t]), AccountingStates),
             current \in RowSeqs(JobIds, CurrentStates),
             reading \in ClockReadings :
             /\ active_jobs' = [active_jobs EXCEPT ![t] =
                    Reconciled(@, seen_jobs[t], accounting, current)]
             /\ seen_jobs' = [seen_jobs EXCEPT ![t] =
                    @ \cup IdsOf(accounting) \cup IdsOf(current)]
             /\ now' = reading
             /\ new_update' = [new_update EXCEPT ![t] = reading]
             /\ pos' = [pos EXCEPT ![t] = 1]
             /\ pc' = [pc EXCEPT ![t] =
                    IF active_jobs'[t] = << >> THEN "assign" ELSE "commit"]
             /\ UNCHANGED << mvars, xvars, log, jobs, last_update, failed, response, overlapped, wrote >>
       \/ Raise(t, "accounting_jobs")
       \/ Raise(t, "current_jobs")

\* One iteration of self.jobs.update(active_jobs, timestamp=last_update).
Commit(t) ==
    /\ pc[t] = "commit"
    /\ LET merged == UpdateOne(jobs, active_jobs[t][pos[t]].job,
                               JobsIter(active_jobs[t], TRUE, new_update[t])[pos[t]].ts)
       IN  /\ jobs' = merged
           /\ overlapped' = [u \in Threads |->
                  IF u # t /\ pc[u] \notin {"new", "done", "failed"} /\ merged # jobs
                  THEN TRUE ELSE overlapped[u]]
           /\ wrote' = [wrote EXCEPT ![t] = @ \/ merged # jobs]
    /\ pos' = [pos EXCEPT ![t] = @ + 1]
    /\ pc' = [pc EXCEPT ![t] = IF pos[t] = Len(active_jobs[t]) THEN "assign" ELSE "commit"]
    /\ UNCHANGED << mvars, xvars, now, log, last_update, active_jobs, seen_jobs, new_update,
                    failed, response >>

\* self.last_update = last_update; return active_jobs.
AssignLastUpdate(t) ==
    /\ pc[t] = "assign"
    /\ last_update' = new_update[t]
    /\ pc' = [pc EXCEPT ![t] = "respond"]
    /\ UNCHANGED << mvars, xvars, now, log, jobs, active_jobs, seen_jobs, new_update, pos,
                    failed, response, overlapped, wrote >>

\* --------------------------------------------------------------- list_jobs
\* The ids of the jobs list_jobs puts into its answer for `since`.
ListedJobs(table, since) ==
    {table[i].job["JobId"] : i \in {j \in 1..Len(table) :
        table[j].ts > since /\ HasClassification(table[j].job)}}

\* The timestamps a client asks with; NoTimestamp stands for /jobs/, whose
\* since lies a year back, before every stored timestamp.
Sinces == {NoTimestamp} \cup Clock

\* list_jobs after state.update(): the body for /jobs/delta/<since>.
ListJobs(t) ==
    /\ pc[t] = "respond"
    /\ \E since \in Sinces :
          response' = [response EXCEPT ![t] =
              [timestamp |-> last_update, since |-> since,
               jobs |-> ListedJobs(jobs, since)]]
    /\ pc' = [pc EXCEPT ![t] = "write"]
    /\ UNCHANGED << mvars, xvars, now, log, jobs, last_update, active_jobs, seen_jobs,
                    new_update, pos, failed, overlapped, wrote >>

\* The thread ends with the answer `status`; its locals are gone.
Finish(t, status) ==
    /\ pc' = [pc EXCEPT ![t] = status]
    /\ active_jobs' = [active_jobs EXCEPT ![t] = << >>]
    /\ seen_jobs' = [seen_jobs EXCEPT ![t] = {}]
    /\ new_update' = [new_update EXCEPT ![t] = NoTimestamp]
    /\ pos' = [pos EXCEPT ![t] = 0]
    /\ failed' = [failed EXCEPT ![t] = "none"]
    /\ response' = [response EXCEPT ![t] = NoResponse]
    /\ overlapped' = [overlapped EXCEPT ![t] = FALSE]
    /\ wrote' = [wrote EXCEPT ![t] = FALSE]
    /\ UNCHANGED << mvars, xvars, now, log, jobs, last_update >>

\* RequestHandler writes the response and the thread ends.
WriteResponse(t) ==
    /\ pc[t] = "write"
    /\ Finish(t, "done")

\* RequestHandler catches the exception and answers 500.
SendError(t) ==
    /\ pc[t] = "raised"
    /\ Finish(t, "failed")

Next ==
    \/ \E id \in LoggedIds : Submit(id)
    \/ \E t \in Threads : BeginUpdate(t)
    \/ \E t \in Threads : ScheduledJobs(t)
    \/ \E t \in Threads : QueryScheduler(t)
    \/ \E t \in Threads : Commit(t)
    \/ \E t \in Threads : AssignLastUpdate(t)
    \/ \E t \in Threads : ListJobs(t)
    \/ \E t \in Threads : WriteResponse(t)
    \/ \E t \in Threads : SendError(t)

Spec == Init /\ [][Next]_vars

\* ------------------------------------------------------ a polling client
\* One client asks again and again: first GET /jobs/, then
\* GET /jobs/delta/<timestamp> with the timestamp of the answer it got last.
\* Its requests are served one after the other, each by a thread of its own,
\* here always named "t1"; nobody else asks meanwhile.
Poller == "t1"

\* list_jobs after state.update(), for the request of the polling client.
Poll ==
    /\ pc[Poller] = "respond"
    /\ response' = [response EXCEPT ![Poller] =
          [timestamp |-> last_update, since |-> c_since,
           jobs |-> ListedJobs(jobs, c_since)]]
    /\ c_table' = jobs
    /\ pc' = [pc EXCEPT ![Poller] = "write"]
    /\ UNCHANGED << mvars, gvars, pvars, fvars, c_since, now, log, jobs, last_update,
                    active_jobs, seen_jobs, new_update, pos, failed, overlapped, wrote >>

\* RequestHandler writes the response to the polling client and the thread
\* ends; the client keeps the timestamp and asks once more.
Deliver ==
    /\ pc[Poller] = "write"
    /\ c_since' = response[Poller].timestamp
    /\ pc' = [pc EXCEPT ![Poller] = IF c_since = NoTimestamp THEN "new" ELSE "done"]
    /\ active_jobs' = [active_jobs EXCEPT ![Poller] = << >>]
    /\ seen_jobs' = [seen_jobs EXCEPT ![Poller] = {}]
    /\ new_update' = [new_update EXCEPT ![Poller] = NoTimestamp]
    /\ pos' = [pos EXCEPT ![Poller] = 0]
    /\ failed' = [failed EXCEPT ![Poller] = "none"]
    /\ response' = [response EXCEPT ![Poller] = NoResponse]
    /\ overlapped' = [overlapped EXCEPT ![Poller] = FALSE]
    /\ wrote' = [wrote EXCEPT ![Poller] = FALSE]
    /\ UNCHANGED << mvars, gvars, pvars, fvars, c_table, now, log, jobs, last_update >>

PollNext ==
    \/ \E id \in LoggedIds : Submit(id)
    \/ BeginUpdate(Poller)
    \/ ScheduledJobs(Poller)
    \/ QueryScheduler(Poller)
    \/ Commit(Poller)
    \/ AssignLastUpdate(Poller)
    \/ Poll
    \/ Deliver
    \/ SendError(Poller)

SpecPoll == Init /\ [][PollNext]_vars

\* ------------------------------------------------ JobList.update taken alone
\* The dicts the JobList is tried with: with and without a State, and one
\* that holds a key the others lack.
MergeRecords ==
    UNION {{[JobId |-> id], [JobId |-> id, State |-> "RUNNING"],
            [JobId |-> id, State |-> "COMPLETED"]} : id \in JobIds}
    \cup {[JobId |-> id, JobName |-> NameOf(id)] : id \in LoggedIds}

DistinctIds(entries) ==
    \A i, j \in 1..Len(entries) :
        i # j => entries[i].job["JobId"] # entries[j].job["JobId"]

EntrySeqs(stamps, n) ==
    UNION {[1..k -> [job : MergeRecords, ts : stamps]] : k \in 0..n}

\* JobLists as they can stand before a call: entries stamped at start-up or
\* not stamped at all (a scratch table).
MergeTables ==
    {e \in EntrySeqs({NoTimestamp, 0}, Cardinality(JobIds)) : DistinctIds(e)}

\* A plain list of drafts carries no timestamps and may repeat an id.
MergeLists == EntrySeqs({NoTimestamp}, MaxDrafts)

\* A JobList given as drafts carries its own timestamps.
MergeJobLists ==
    {e \in EntrySeqs({NoTimestamp, 1}, Cardinality(JobIds)) : DistinctIds(e)}

MergeTimestamps == {NoTimestamp} \cup 1..MaxClock

ServerIdle ==
    /\ now = 0
    /\ log = << >>
    /\ jobs = << >>
    /\ last_update = 0
    /\ pc = [t \in Threads |-> "new"]
    /\ active_jobs = [t \in Threads |-> << >>]
    /\ seen_jobs = [t \in Threads |-> {}]
    /\ new_update = [t \in Threads |-> NoTimestamp]
    /\ pos = [t \in Threads |-> 0]
    /\ failed = [t \in Threads |-> "none"]
    /\ response = [t \in Threads |-> NoResponse]
    /\ overlapped = [t \in Threads |-> FALSE]
    /\ wrote = [t \in Threads |-> FALSE]

MergeInit ==
    /\ ServerIdle
    /\ LookupIdle
    /\ ParseIdle
    /\ FilterIdle
    /\ PollIdle
    /\ m_jobs \in MergeTables
    /\ m_is_job_list \in BOOLEAN
    /\ m_drafts \in (IF m_is_job_list THEN MergeJobLists ELSE MergeLists)
    /\ m_iter = << >>
    /\ m_round = 0
    /\ m_t = NoTimestamp
    /\ m_before = m_jobs
    /\ m_after = << >>

\* update(jobs, timestamp) is called: jobs_iter is set up.
CallUpdate ==
    /\ m_round < 2
    /\ m_iter = << >>
    /\ \E timestamp \in MergeTimestamps :
          /\ m_t' = timestamp
          /\ m_iter' = JobsIter(m_drafts, m_is_job_list, timestamp)
    /\ m_round' = m_round + 1
    /\ m_after' = IF m_round = 1 THEN m_jobs ELSE m_after
    /\ UNCHANGED << sysvars, xvars, m_jobs, m_drafts, m_is_job_list, m_before >>

\* One iteration of the for loop.
UpdateStep ==
    /\ m_iter # << >>
    /\ m_jobs' = UpdateOne(m_jobs, Head(m_iter).job, Head(m_iter).ts)
    /\ m_iter' = Tail(m_iter)
    /\ UNCHANGED << sysvars, xvars, m_drafts, m_is_job_list, m_round, m_t, m_before, m_after >>

MergeNext == CallUpdate \/ UpdateStep

SpecMerge == MergeInit /\ [][MergeNext]_vars

\* ------------------------------------------------ State.get_job taken alone
\* The ids a client asks for: the ids of the scheduler and one it never gave out.
LookupIds == JobIds \cup {"300"}

\* state.jobs as a lookup can find it: every entry stamped by the bootstrap.
LookupTables == {e \in MergeTables : \A i \in 1..Len(e) : e[i].ts = 0}

LookupInit ==
    /\ MergeIdle
    /\ LookupIdle
    /\ ParseIdle
    /\ FilterIdle
    /\ PollIdle
    /\ now = 0
    /\ log = << >>
    /\ jobs \in LookupTables
    /\ last_update = 0
    /\ pc = [t \in Threads |-> "new"]
    /\ active_jobs = [t \in Threads |-> << >>]
    /\ seen_jobs = [t \in Threads |-> {}]
    /\ new_update = [t \in Threads |-> NoTimestamp]
    /\ pos = [t \in Threads |-> 0]
    /\ failed = [t \in Threads |-> "none"]
    /\ response = [t \in Threads |-> NoResponse]
    /\ overlapped = [t \in Threads |-> FALSE]
    /\ wrote = [t \in Threads |-> FALSE]

\* JobList.get(job_id): self.jobs[job_id][0]; a dict raises KeyError for a
\* key it does not hold.
Get(table, job_id) ==
    IF job_id \in JobIdsOf(table)
    THEN [outcome |-> "returned", job |-> table[IndexOf(table, job_id)].job]
    ELSE [outcome |-> "KeyError", job |-> NoJob]

\* State.get_job(job_id): return self.jobs.get(job_id)
GetJob(job_id) ==
    /\ g_id' = job_id
    /\ g_outcome' = Get(jobs, job_id).outcome
    /\ g_job' = Get(jobs, job_id).job
    /\ UNCHANGED << sysvars, mvars, pvars, fvars, cvars >>

LookupNext == \E job_id \in LookupIds : GetJob(job_id)

SpecLookup == LookupInit /\ [][LookupNext]_vars

\* ------------------------------------------------ JobList.filter taken alone
\* As FilteredTimestamp, but the entry's own timestamp is never kept.
FilteredTimestampGiven(job_timestamp, timestamp) == timestamp

\* job_timestamp if timestamp is None else timestamp
FilteredTimestamp(job_timestamp, timestamp) ==
    IF timestamp = NoTimestamp THEN job_timestamp ELSE timestamp

\* JobList.filter(op, timestamp): the jobs of the JobList returned.  The dict
\* comprehension walks self.jobs in order and keeps the entries op accepts.
Filter(self_jobs, op, timestamp) ==
    LET Accepted(e) == e.job \in op
        kept == SelectSeq(self_jobs, Accepted)
    IN  [i \in 1..Len(kept) |->
            [job |-> kept[i].job, ts |-> FilteredTimestamp(kept[i].ts, timestamp)]]

\* Every predicate over the dicts a table can hold, each as the set it accepts.
FilterOps == SUBSET MergeRecords

FilterInit ==
    /\ ServerIdle
    /\ MergeIdle
    /\ LookupIdle
    /\ ParseIdle
    /\ PollIdle
    /\ f_jobs \in MergeTables
    /\ f_op \in FilterOps
    /\ f_timestamp \in MergeTimestamps
    /\ f_out = << >>
    /\ f_done = FALSE

\* filter(op, timestamp) is called and returns.
CallFilter ==
    /\ ~f_done
    /\ f_out' = Filter(f_jobs, f_op, f_timestamp)
    /\ f_done' = TRUE
    /\ UNCHANGED << sysvars, mvars, gvars, pvars, cvars, f_jobs, f_op, f_timestamp >>

FilterNext == CallFilter

SpecFilter == FilterInit /\ [][FilterNext]_vars

\* ---------------------------------------------------------------- strings
\* A str is the sequence of its characters, each a string of length one.
DigitChars == << "0", "1", "2", "3", "4", "5", "6", "7", "8", "9" >>

IsDigit(c) == \E n \in 1..10 : DigitChars[n] = c

DigitValue(c) == (CHOOSE n \in 1..10 : DigitChars[n] = c) - 1

\* str.isnumeric(), and what \d+ matches in full
IsNumeric(s) == s # << >> /\ \A i \in 1..Len(s) : IsDigit(s[i])

\* int(s) for a str of digits
RECURSIVE IntOf(_)
IntOf(s) ==
    IF s = << >> THEN 0
    ELSE 10 * IntOf(SubSeq(s, 1, Len(s) - 1)) + DigitValue(s[Len(s)])

\* str(n) and '{}'.format(n) for n >= 0
RECURSIVE Str(_)
Str(n) ==
    IF n < 10 THEN << DigitChars[n + 1] >>
    ELSE Str(n \div 10) \o << DigitChars[(n % 10) + 1] >>

\* s.find(c) + 1: the place of the first c in s, 0 when s holds none
Find(s, c) ==
    IF \E i \in 1..Len(s) : s[i] = c
    THEN CHOOSE i \in 1..Len(s) : s[i] = c /\ \A j \in 1..(i - 1) : s[j] # c
    ELSE 0

\* s.split(c)
RECURSIVE Split(_, _)
Split(s, c) ==
    IF Find(s, c) = 0 THEN << s >>
    ELSE << SubSeq(s, 1, Find(s, c) - 1) >> \o Split(SubSeq(s, Find(s, c) + 1, Len(s)), c)

\* s.replace(old, new)
RECURSIVE Replace(_, _, _)
Replace(s, old, new) ==
    IF Len(s) < Len(old) THEN s
    ELSE IF SubSeq(s, 1, Len(old)) = old
         THEN new \o Replace(SubSeq(s, Len(old) + 1, Len(s)), old, new)
         ELSE << s[1] >> \o Replace(Tail(s), old, new)

\* a >= b for two str, as Python compares them
RECURSIVE StrGE(_, _)
StrGE(a, b) ==
    IF b = << >> THEN TRUE
    ELSE IF a = << >> THEN FALSE
    ELSE IF a[1] = b[1] THEN StrGE(Tail(a), Tail(b))
    ELSE \E i, j \in 1..10 : DigitChars[i] = a[1] /\ DigitChars[j] = b[1] /\ i > j

\* '{}_{}'.format(a, b) for two str
Composite(a, b) == a \o << "_" >> \o b

\* As TaskRange, with the last task left out.
TaskRangeOpen(start, end) ==
    IF end <= start THEN << >> ELSE [i \in 1..(end - start) |-> start + i - 1]

\* range(start, end + 1)
TaskRange(start, end) ==
    IF end < start THEN << >> ELSE [i \in 1..(end - start + 1) |-> start + i - 1]

\* ---------------------------------------------------- Slurm.parse_job_arrays
\* The outcome of a generator: what it yielded, and whether it then raised.
Yielded(out) == [raised |-> FALSE, out |-> out]
Raised(out) == [raised |-> TRUE, out |-> out]

\* One job_array of the loop: a range with its concurrency limit stripped,
\* or a single task id; int() raises ValueError for anything but digits.
ParseJobArray(job_array) ==
    IF Find(job_array, "-") # 0
    THEN LET start == SubSeq(job_array, 1, Find(job_array, "-") - 1)
             rest == SubSeq(job_array, Find(job_array, "-") + 1, Len(job_array))
             end == IF Find(rest, "%") # 0 THEN SubSeq(rest, 1, Find(rest, "%") - 1) ELSE rest
         IN  IF IsNumeric(start) /\ IsNumeric(end)
             THEN Yielded(TaskRange(IntOf(start), IntOf(end)))
             ELSE Raised(<< >>)
    ELSE IF IsNumeric(job_array) THEN Yielded(<< IntOf(job_array) >>)
         ELSE Raised(<< >>)

RECURSIVE ParseJobArraysFrom(_)
ParseJobArraysFrom(parts) ==
    IF parts = << >> THEN Yielded(<< >>)
    ELSE LET one == ParseJobArray(Head(parts))
         IN  IF one.raised THEN one
             ELSE LET rest == ParseJobArraysFrom(Tail(parts))
                  IN  [raised |-> rest.raised, out |-> one.out \o rest.out]

\* parse_job_arrays(job_arrays): the task ids yielded, in order
ParseJobArrays(job_arrays) == ParseJobArraysFrom(Split(job_arrays, ","))

\* ------------------------------------------------- Slurm.jobs_from_cli_args
\* normalize_cli_args: an argument --name=value becomes two, --name and value.
NormalizeArg(arg) ==
    LET Cuts == {i \in 4..(Len(arg) - 1) : arg[i] = "="}
    IN  IF Len(arg) >= 2 /\ arg[1] = "-" /\ arg[2] = "-" /\ Cuts # {}
        THEN LET i == CHOOSE c \in Cuts : \A d \in Cuts : c <= d
             IN  << SubSeq(arg, 1, i - 1), SubSeq(arg, i + 1, Len(arg)) >>
        ELSE << arg >>

RECURSIVE NormalizeCliArgs(_)
NormalizeCliArgs(args) ==
    IF args = << >> THEN << >>
    ELSE NormalizeArg(Head(args)) \o NormalizeCliArgs(Tail(args))

\* options we ignore
IgnoredOptions ==
    {<< "-", "-", "p", "a", "r", "s", "a", "b", "l", "e" >>,
     << "-", "-", "v", "e", "r", "b", "o", "s", "e" >>,
     << "-", "-", "e", "x", "c", "l", "u", "s", "i", "v", "e" >>}

\* options with arguments we ignore
IgnoredOptionsWithArgument ==
    {<< "-", "-", "n", "i", "c", "e" >>,
     << "-", "-", "m", "e", "m", "-", "p", "e", "r", "-", "c", "p", "u" >>,
     << "-", "-", "e", "x", "p", "o", "r", "t" >>}

\* The options whose argument is stored in the job, each with its key.
OptionKeys ==
    {<< << "-", "-", "d", "e", "p", "e", "n", "d", "e", "n", "c", "y" >>, "Dependency" >>,
     << << "-", "d" >>, "Dependency" >>,
     << << "-", "-", "n", "t", "a", "s", "k", "s" >>, "NumTasks" >>,
     << << "-", "n" >>, "NumTasks" >>,
     << << "-", "-", "n", "o", "d", "e", "s" >>, "NumNodes" >>,
     << << "-", "N" >>, "NumNodes" >>,
     << << "-", "-", "a", "c", "c", "o", "u", "n", "t" >>, "Account" >>,
     << << "-", "A" >>, "Account" >>,
     << << "-", "-", "p", "a", "r", "t", "i", "t", "i", "o", "n" >>, "Partition" >>,
     << << "-", "p" >>, "Partition" >>,
     << << "-", "J" >>, "JobName" >>,
     << << "-", "-", "t", "i", "m", "e" >>, "TimeLimit" >>,
     << << "-", "-", "c", "p", "u", "s", "-", "p", "e", "r", "-", "t", "a", "s", "k" >>, "NumCPUs" >>,
     << << "-", "e" >>, "StdErr" >>,
     << << "-", "o" >>, "StdOut" >>}

ArrayOptions == {<< "-", "a" >>, << "-", "-", "a", "r", "r", "a", "y" >>}

IsStoredOption(arg) == \E p \in OptionKeys : p[1] = arg

KeyOfOption(arg) == (CHOOSE p \in OptionKeys : p[1] = arg)[2]

\* job[key] = value
SetItem(job, key, value) ==
    [k \in DOMAIN job \cup {key} |-> IF k = key THEN value ELSE job[k]]

\* job.get(key, '')
GetOrEmpty(job, key) == IF key \in DOMAIN job THEN job[key] ELSE << >>

\* The for loop over the arguments.  job_array is '' while no array option
\* was met (None and '' are both false in `if not job_array`).  next(it) on
\* an exhausted iterator and an argument the scanner does not know raise.
RECURSIVE ScanArgs(_, _, _)
ScanArgs(job, job_array, it) ==
    IF it = << >> THEN [raised |-> FALSE, job |-> job, job_array |-> job_array]
    ELSE LET arg == Head(it)
             rest == Tail(it)
             Fails == [raised |-> TRUE, job |-> job, job_array |-> job_array]
         IN  IF arg \in IgnoredOptions THEN ScanArgs(job, job_array, rest)
             ELSE IF arg \in IgnoredOptionsWithArgument
                  THEN IF rest = << >> THEN Fails ELSE ScanArgs(job, job_array, Tail(rest))
             ELSE IF IsStoredOption(arg)
                  THEN IF rest = << >> THEN Fails
                       ELSE ScanArgs(SetItem(job, KeyOfOption(arg), Head(rest)), job_array, Tail(rest))
             ELSE IF arg \in ArrayOptions
                  THEN IF rest = << >> THEN Fails ELSE ScanArgs(job, Head(rest), Tail(rest))
             ELSE IF arg = << >> THEN Fails
             ELSE IF arg[1] # "-"
                  THEN [raised |-> FALSE, job |-> SetItem(job, "Command", rest),
                        job_array |-> job_array]
             ELSE Fails

MacroJob == << "%", "A" >>
MacroTask == << "%", "a" >>

\* The Job of a submission without array option.
PlainJob(job) ==
    SetItem(SetItem(job,
        "StdOut", Replace(GetOrEmpty(job, "StdOut"), MacroJob, job["JobId"])),
        "StdErr", Replace(GetOrEmpty(job, "StdOut"), MacroJob, job["JobId"]))

\* The Job of one task of an array submission.
TaskJob(job, array_task_id) ==
    SetItem(SetItem(SetItem(SetItem(SetItem(job,
        "JobId", Composite(job["JobId"], Str(array_task_id))),
        "ArrayJobId", job["JobId"]),
        "ArrayTaskId", Str(array_task_id)),
        "StdOut", Replace(Replace(GetOrEmpty(job, "StdOut"), MacroJob, job["JobId"]),
                          MacroTask, Str(array_task_id))),
        "StdErr", Replace(Replace(GetOrEmpty(job, "StdErr"), MacroJob, job["JobId"]),
                          MacroTask, Str(array_task_id)))

\* jobs_from_cli_args(job, args): the Jobs yielded, and whether it raised.
JobsFromCliArgs(job, args) ==
    LET scan == ScanArgs(job, << >>, NormalizeCliArgs(args))
    IN  IF scan.raised THEN Raised(<< >>)
        ELSE IF scan.job_array = << >> THEN Yielded(<< PlainJob(scan.job) >>)
        ELSE LET tasks == ParseJobArrays(scan.job_array)
             IN  [raised |-> tasks.raised,
                  out |-> [i \in 1..Len(tasks.out) |-> TaskJob(scan.job, tasks.out[i])]]

\* ------------------------------------------------------ Slurm.scheduled_jobs
\* datetime(1970, 1, 1).strftime('%Y%m%d%H%M%S')
Epoch == << "1", "9", "7", "0", "0", "1", "0", "1", "0", "0", "0", "0", "0", "0" >>

\* One line of .schedule-log, split into timestamp, line_job_id and the
\* arguments: lines of a foreign id are skipped, lines before since too.
ScheduledJobsOfLine(line, since_timestamp) ==
    IF ~IsNumeric(line.job_id) THEN Yielded(<< >>)
    ELSE IF IsNumeric(line.timestamp) /\ StrGE(line.timestamp, since_timestamp)
    THEN JobsFromCliArgs([JobId |-> line.job_id, SubmitTime |-> line.timestamp,
                          State |-> "PENDING"], line.args)
    ELSE Yielded(<< >>)

\* -------------------------------------------------------- Slurm.current_jobs
NotAvailable == << "N", "/", "A" >>

\* dict without the keys ArrayJobId and ArrayTaskId
WithoutArrayKeys(job) ==
    [k \in DOMAIN job \ {"ArrayJobId", "ArrayTaskId"} |-> job[k]]

\* The Jobs current_jobs yields for one row of squeue.
CurrentJobsOfRow(job) ==
    IF job["ArrayTaskId"] = NotAvailable
    THEN Yielded(<< WithoutArrayKeys(job) >>)
    ELSE IF Find(job["ArrayTaskId"], "-") # 0
    THEN LET tasks == ParseJobArrays(job["ArrayTaskId"])
         IN  [raised |-> tasks.raised,
              out |-> [i \in 1..Len(tasks.out) |->
                         SetItem(SetItem(job,
                             "JobId", Composite(job["ArrayJobId"], Str(tasks.out[i]))),
                             "ArrayTaskId", tasks.out[i])]]
    ELSE Yielded(<< SetItem(job, "JobId", Composite(job["ArrayJobId"], job["ArrayTaskId"])) >>)

\* ----------------------------------------------------- Slurm.accounting_jobs
\* The match of the JobId pattern: array_job_id, then nothing, _task, [start]
\* or [start-end]; a group that took no part is '' here (None in Python).
NoMatch == [matched |-> FALSE, array_job_id |-> << >>, array_task_id |-> << >>,
            array_task_start |-> << >>, array_task_end |-> << >>]

Groups(job_id, task_id, start, end) ==
    [matched |-> TRUE, array_job_id |-> job_id, array_task_id |-> task_id,
     array_task_start |-> start, array_task_end |-> end]

MatchJobId(id) ==
    LET n == IF \E i \in 1..Len(id) : ~IsDigit(id[i])
             THEN (CHOOSE i \in 1..Len(id) : ~IsDigit(id[i]) /\ \A j \in 1..(i - 1) : IsDigit(id[j])) - 1
             ELSE Len(id)
        head == SubSeq(id, 1, n)
        rest == SubSeq(id, n + 1, Len(id))
        inner == SubSeq(rest, 2, Len(rest) - 1)
        dash == Find(inner, "-")
    IN  IF n = 0 THEN NoMatch
        ELSE IF rest = << >> THEN Groups(head, << >>, << >>, << >>)
        ELSE IF rest[1] = "_"
             THEN IF IsNumeric(Tail(rest)) THEN Groups(head, Tail(rest), << >>, << >>)
                  ELSE NoMatch
        ELSE IF rest[1] = "[" /\ rest[Len(rest)] = "]" /\ Len(rest) >= 2
             THEN IF IsNumeric(inner) THEN Groups(head, << >>, inner, << >>)
                  ELSE IF dash # 0 /\ IsNumeric(SubSeq(inner, 1, dash - 1))
                          /\ IsNumeric(SubSeq(inner, dash + 1, Len(inner)))
                       THEN Groups(head, << >>, SubSeq(inner, 1, dash - 1),
                                   SubSeq(inner, dash + 1, Len(inner)))
                       ELSE NoMatch
        ELSE NoMatch

\* a or b for two str
Or(a, b) == IF a # << >> THEN a ELSE b

\* The Jobs accounting_jobs yields for one row of sacct.
AccountingJobsOfRow(job) ==
    LET match == MatchJobId(job["JobId"])
    IN  IF ~match.matched THEN Yielded(<< >>)
        ELSE IF match.array_task_start # << >> /\ match.array_task_end # << >>
        THEN LET tasks == TaskRange(IntOf(match.array_task_start), IntOf(match.array_task_end))
             IN  Yielded([i \in 1..Len(tasks) |->
                     SetItem(SetItem(SetItem(job,
                         "JobId", Composite(match.array_job_id, Str(tasks[i]))),
                         "ArrayJobId", match.array_job_id),
                         "ArrayTaskId", Str(tasks[i]))])
        ELSE IF match.array_task_id # << >> \/ match.array_task_start # << >>
        THEN Yielded(<< SetItem(SetItem(SetItem(job,
                 "JobId", Composite(match.array_job_id,
                     Str(IntOf(Or(match.array_task_id, match.array_task_start))))),
                 "ArrayJobId", match.array_job_id),
                 "ArrayTaskId", Or(match.array_task_id, match.array_task_end)) >>)
        ELSE Yielded(<< job >>)

\* ------------------------------------------- the source adapters taken alone
\* What the submission wrapper, squeue and sacct write is drawn as a shape
\* (job number, task ids, concurrency limit) and spelled out as they spell it.
JobNumbers == {100, 500}

\* %N behind an array spec: 0 stands for no limit.
Limits == {0, 2}

\* One element of an array spec: a single task id or a range lo-hi.
ArrayItems ==
    {item \in [lo : 1..MaxTask, hi : 1..MaxTask, range : BOOLEAN] :
        item.lo <= item.hi /\ (item.range \/ item.lo = item.hi)}

ArraySpecs == UNION {[1..k -> ArrayItems] : k \in 1..MaxItems}

SingleTasks == {<< item >> : item \in {i \in ArrayItems : ~i.range}}

ItemText(item) ==
    IF item.range THEN Str(item.lo) \o << "-" >> \o Str(item.hi) ELSE Str(item.lo)

RECURSIVE ItemsText(_)
ItemsText(items) ==
    IF Len(items) = 1 THEN ItemText(items[1])
    ELSE ItemText(Head(items)) \o << "," >> \o ItemsText(Tail(items))

\* --array=1-3,5%2 as sbatch takes it and squeue prints it
SpecText(items, limit) ==
    ItemsText(items) \o (IF limit = 0 THEN << >> ELSE << "%" >> \o Str(limit))

Shape(kind, job, items, limit, long, with_out, with_err) ==
    [kind |-> kind, job |-> job, items |-> items, limit |-> limit, long |-> long,
     with_out |-> with_out, with_err |-> with_err]

StdOutTemplate == << "o", "%", "A", "_", "%", "a" >>
StdErrTemplate == << "e", "%", "A", "_", "%", "a" >>
JobNameText == << "c", "l", "e", "a", "n", "-", "e", "n", "-", "w", "i", "d", "e" >>
ScriptText == << "r", "u", "n", ".", "s", "h" >>
ScriptArgs == << << "e", "n" >> >>
SubmitTimeText == << "2", "0", "2", "4", "0", "1", "0", "5", "1", "2", "0", "0", "0", "0" >>
ForeignText == << "S", "u", "b", "m", "i", "t", "t", "e", "d" >>
BatchSuffix == << ".", "b", "a", "t", "c", "h" >>

\* <timestamp> <jobId> <argument-list>, the arguments split at the blanks
LogLine(shape) ==
    [timestamp |-> SubmitTimeText,
     job_id |-> IF shape.kind = "foreign" THEN ForeignText ELSE Str(shape.job),
     args |->
        << << "-", "-", "p", "a", "r", "s", "a", "b", "l", "e" >>, << "-", "J" >>, JobNameText >>
        \o (IF shape.kind # "array" THEN << >>
            ELSE IF shape.long
                 THEN << << "-", "-", "a", "r", "r", "a", "y", "=" >> \o SpecText(shape.items, shape.limit) >>
                 ELSE << << "-", "a" >>, SpecText(shape.items, shape.limit) >>)
        \o (IF shape.with_out THEN << << "-", "o" >>, StdOutTemplate >> ELSE << >>)
        \o (IF shape.with_err THEN << << "-", "e" >>, StdErrTemplate >> ELSE << >>)
        \o << ScriptText >> \o ScriptArgs]

\* The columns %i (JOBID), %F (ARRAY_JOB_ID), %K (ARRAY_TASK_ID) and %T.
SqueueRow(shape) ==
    [JobId |-> IF shape.kind = "single" THEN Str(shape.job)
               ELSE IF shape.kind = "task"
                    THEN Composite(Str(shape.job), Str(shape.items[1].lo))
               ELSE Composite(Str(shape.job),
                        << "[" >> \o SpecText(shape.items, shape.limit) \o << "]" >>),
     ArrayJobId |-> Str(shape.job),
     ArrayTaskId |-> IF shape.kind = "single" THEN NotAvailable
                     ELSE IF shape.kind = "task" THEN Str(shape.items[1].lo)
                     ELSE SpecText(shape.items, shape.limit),
     State |-> IF shape.kind = "pending" THEN "PENDING" ELSE "RUNNING"]

\* The columns JobID and State.
SacctRow(shape) ==
    [JobId |-> IF shape.kind = "plain" THEN Str(shape.job)
               ELSE IF shape.kind = "task"
                    THEN Composite(Str(shape.job), Str(shape.items[1].lo))
               ELSE IF shape.kind = "collapsed"
                    THEN Str(shape.job) \o << "[" >> \o SpecText(shape.items, shape.limit)
                         \o << "]" >>
               ELSE (IF shape.items = << >> THEN Str(shape.job)
                     ELSE Composite(Str(shape.job), Str(shape.items[1].lo)))
                    \o BatchSuffix,
     State |-> "COMPLETED"]

\* The adapter of source src is handed what shape spells out.
Draws(src, shape, input) ==
    /\ p_src = src
    /\ p_shape = shape
    /\ p_input = input

\* Lines of .schedule-log: a submission without array, an array submission
\* (-a spec or --array=spec), and a line that is not a submission.
DrawsLogLine ==
    \E j \in JobNumbers, o \in BOOLEAN, e \in BOOLEAN :
        LET Logged(kind, items, limit, long) ==
                Draws("log", Shape(kind, j, items, limit, long, o, e),
                      LogLine(Shape(kind, j, items, limit, long, o, e)))
        IN  \/ Logged("plain", << >>, 0, FALSE)
            \/ ~o /\ ~e /\ Logged("foreign", << >>, 0, FALSE)
            \/ \E items \in ArraySpecs, limit \in Limits, long \in BOOLEAN :
                  Logged("array", items, limit, long)

\* Rows of squeue: a job that is no array, one task of an array, and the
\* pending tasks of an array in one row.
DrawsSqueueRow ==
    \E j \in JobNumbers :
        LET Reported(kind, items, limit) ==
                Draws("squeue", Shape(kind, j, items, limit, FALSE, FALSE, FALSE),
                      SqueueRow(Shape(kind, j, items, limit, FALSE, FALSE, FALSE)))
        IN  \/ Reported("single", << >>, 0)
            \/ \E items \in SingleTasks : Reported("task", items, 0)
            \/ \E items \in ArraySpecs, limit \in Limits : Reported("pending", items, limit)

\* Rows of sacct: a job that is no array, one task, an array collapsed into
\* one row, and the .batch step of a job or of a task.
DrawsSacctRow ==
    \E j \in JobNumbers :
        LET Reported(kind, items, limit) ==
                Draws("sacct", Shape(kind, j, items, limit, FALSE, FALSE, FALSE),
                      SacctRow(Shape(kind, j, items, limit, FALSE, FALSE, FALSE)))
        IN  \/ Reported("plain", << >>, 0)
            \/ \E items \in SingleTasks : Reported("task", items, 0)
            \/ \E items \in ArraySpecs, limit \in Limits : Reported("collapsed", items, limit)
            \/ \E items \in SingleTasks \cup {<< >>} : Reported("step", items, 0)

ParseInit ==
    /\ ServerIdle
    /\ MergeIdle
    /\ LookupIdle
    /\ FilterIdle
    /\ PollIdle
    /\ DrawsLogLine \/ DrawsSqueueRow \/ DrawsSacctRow
    /\ p_out = Yielded(<< >>)
    /\ p_done = FALSE

Adapt(src, out) ==
    /\ p_src = src
    /\ ~p_done
    /\ p_out' = out
    /\ p_done' = TRUE
    /\ UNCHANGED << sysvars, mvars, gvars, fvars, cvars, p_src, p_shape, p_input >>

\* slurm.scheduled_jobs() reads the line.
ReadLogLine == Adapt("log", ScheduledJobsOfLine(p_input, Epoch))

\* slurm.current_jobs() reads the row.
ReadSqueueRow == Adapt("squeue", CurrentJobsOfRow(p_input))

\* slurm.accounting_jobs() reads the row.
ReadSacctRow == Adapt("sacct", AccountingJobsOfRow(p_input))

ParseNext == ReadLogLine \/ ReadSqueueRow \/ ReadSacctRow

SpecParse == ParseInit /\ [][ParseNext]_vars

\* ------------------------------------------------------------------ claims
EntryOf(table, id) == table[IndexOf(table, id)]

\* A step of the commit loop or of a lone update that meets a known id.
MergesIntoExisting ==
    /\ m_iter # << >>
    /\ m_iter' = Tail(m_iter)
    /\ Head(m_iter).job["JobId"] \in JobIdsOf(m_jobs)

\* C2 as claimed: merging a draft into an existing entry moves the entry's
\* timestamp to the timestamp of the merge exactly when the merge changes the
\* stored fields; a changing merge never leaves the old timestamp in place.
C2_AdvancesIffChanged ==
    [][MergesIntoExisting =>
        LET d == Head(m_iter)
            cur == EntryOf(m_jobs, d.job["JobId"])
            new == EntryOf(m_jobs', d.job["JobId"])
        IN  /\ new.job # cur.job => (d.ts # NoTimestamp /\ new.ts = d.ts)
            /\ new.job = cur.job => new.ts = cur.ts]_vars

\* C2 amended: the stored fields change exactly when the draft holds an item
\* the entry lacks; a changing merge that carries a timestamp stamps the entry
\* with it, a changing merge that carries none (timestamp=None) keeps the
\* entry's timestamp, and a merge that changes nothing leaves the entry as it is.
C2_AdvancesIffChangedAndStamped ==
    [][MergesIntoExisting =>
        LET d == Head(m_iter)
            cur == EntryOf(m_jobs, d.job["JobId"])
            new == EntryOf(m_jobs', d.job["JobId"])
        IN  /\ new.job # cur.job <=> ItemsDiffer(d.job, cur.job)
            /\ (new.job # cur.job /\ d.ts # NoTimestamp) => new.ts = d.ts
            /\ (new.job # cur.job /\ d.ts = NoTimestamp) => new.ts = cur.ts
            /\ new.job = cur.job => new = cur]_vars

\* {State: RUNNING} was merged with a timestamp into a record lacking State,
\* and the entry now carries the State and the timestamp of the merge.
C2_Witness ==
    /\ m_round = 1 /\ m_iter = << >> /\ Len(m_drafts) = 1
    /\ m_t # NoTimestamp
    /\ LET d == m_drafts[1].job
       IN  /\ d = [JobId |-> "100", State |-> "RUNNING"]
           /\ "100" \in JobIdsOf(m_before)
           /\ "State" \notin DOMAIN EntryOf(m_before, "100").job
           /\ EntryOf(m_before, "100").ts = 0
           /\ EntryOf(m_jobs, "100").job["State"] = "RUNNING"
           /\ EntryOf(m_jobs, "100").ts = m_t

BothCallsDone == m_round = 2 /\ m_iter = << >>

\* C3 as claimed: for every table, draft list and pair of timestamps, merging
\* the same drafts a second time leaves the table as the first merge left it.
C3_Idempotent == BothCallsDone => m_jobs = m_after

\* No two drafts of one JobId give different values to a key.
Compatible(drafts) ==
    \A i, j \in 1..Len(drafts) :
        drafts[i].job["JobId"] = drafts[j].job["JobId"] =>
            \A k \in DOMAIN drafts[i].job \cap DOMAIN drafts[j].job :
                drafts[i].job[k] = drafts[j].job[k]

\* C3 amended: the second merge changes no content and no timestamp when the
\* drafts of one JobId agree on the keys they share (as they do in every list
\* of drafts with distinct ids and in every JobList).
C3_IdempotentWhenCompatible ==
    (BothCallsDone /\ Compatible(m_drafts)) => m_jobs = m_after

\* Both merges ran, the first changed the table, and the second came with a
\* timestamp that no entry took.
C3_Witness ==
    /\ BothCallsDone /\ Compatible(m_drafts) /\ m_drafts # << >>
    /\ m_after # m_before
    /\ m_t # NoTimestamp
    /\ \A i \in 1..Len(m_jobs) : m_jobs[i].ts # m_t
    /\ \E i \in 1..Len(m_before) : m_jobs[i] # m_before[i]

\* A thread takes the step in which list_jobs builds its answer.
Answers(t) == pc[t] = "respond" /\ pc'[t] = "write"

\* C1: the delta answer holds exactly the jobs whose stored timestamp is
\* later than the timestamp asked with, whatever their name or classification.
C1_DeltaComplete ==
    [][\A t \in Threads : (Answers(t) /\ response'[t].since # NoTimestamp) =>
        response'[t].jobs =
            {jobs[i].job["JobId"] : i \in {j \in 1..Len(jobs) :
                jobs[j].ts > response'[t].since}}]_vars

\* C4: the stored timestamp of a job never decreases.
C4_TimestampsMonotone ==
    [][\A i \in 1..Len(jobs) : jobs'[i].ts >= jobs[i].ts]_vars

\* The refresh of a thread has merged its scratch table into state.jobs.
Committed(t) == pc[t] \in {"assign", "respond"}

\* C5: when a refresh that no other refresh overlapped has committed, every
\* job that was active when it began and that none of its sources yielded is
\* stored as CANCELLED with the timestamp of this refresh, and no job that a
\* source yielded was marked CANCELLED by the heuristic.
C5_DeadJobsCancelled ==
    \A t \in Threads :
        /\ (Committed(t) /\ ~overlapped[t]) =>
              \A id \in JobIdsOf(active_jobs[t]) \ seen_jobs[t] :
                  /\ id \in JobIdsOf(jobs)
                  /\ EntryOf(jobs, id).job["State"] = "CANCELLED"
                  /\ EntryOf(jobs, id).ts = new_update[t]
        /\ (pc[t] = "commit" \/ Committed(t)) =>
              \A id \in seen_jobs[t] :
                  EntryOf(active_jobs[t], id).job["State"] # "CANCELLED"

\* A refresh that nothing overlapped has committed with one job that no
\* source yielded and one that a source did yield.
C5_Witness ==
    \E t \in Threads :
        /\ pc[t] = "assign" /\ ~overlapped[t]
        /\ JobIdsOf(active_jobs[t]) \ seen_jobs[t] # {}
        /\ seen_jobs[t] # {}
        /\ new_update[t] > 0

\* A thread is between the first and the last step of State.update.
InUpdate(t) == pc[t] \in {"scheduled", "accounting", "commit", "assign"}

\* No other request is being served, and none wrote state.jobs since the
\* update of t began: state.jobs is the table that update began with.
Alone(t) ==
    /\ ~overlapped[t]
    /\ \A u \in Threads \ {t} : pc[u] \in {"new", "done", "failed"}

\* C6: the ids handed to sacct --jobs hold no job that state.jobs stored in
\* a terminal state when the cycle began (stated for the cycles that run
\* alone, where state.jobs still is the table the cycle began with).
C6_TerminalExcluded ==
    \A t \in Threads :
        (pc[t] = "accounting" /\ Alone(t)) =>
            \A id \in JobIdsOf(active_jobs[t]) \cap JobIdsOf(jobs) :
                IsActive(EntryOf(jobs, id).job)

\* C7: once a refresh has been answered, a later refresh (stated for one that
\* runs alone) changes no entry stored in a terminal state, neither its fields
\* nor its timestamp.
C7_TerminalImmutable ==
    [][((\E u \in Threads : pc[u] = "done") /\ (\A t \in Threads : InUpdate(t) => Alone(t))) =>
        \A i \in 1..Len(jobs) :
            ~IsActive(jobs[i].job) => jobs'[i] = jobs[i]]_vars

\* C8: a source that fails does not end the refresh: the exception is not
\* passed on to the caller of State.update.
C8_FailureIsolated ==
    \A t \in Threads : failed[t] # "none" => pc[t] # "raised"

\* C9: at most one execution of State.update is under way.
C9_Serialized ==
    Cardinality({t \in Threads : InUpdate(t)}) <= 1

\* A commit loop has changed state.jobs and will change it again.
PartlyCommitted(u) ==
    /\ pc[u] = "commit"
    /\ wrote[u]
    /\ \E k \in pos[u]..Len(active_jobs[u]) :
          UpdateOne(jobs, active_jobs[u][k].job, new_update[u]) # jobs

\* C10: no answer is built from a table that holds some of the changes of a
\* commit and lacks others.
C10_NoPartialMerge ==
    [][\A t \in Threads : Answers(t) =>
        ~ \E u \in Threads \ {t} : PartlyCommitted(u)]_vars

\* A thread takes the step that opens its round of external queries (the
\* read of .schedule-log).
StartsQueries(t) == pc[t] = "scheduled" /\ pc'[t] = "accounting"

\* C11: a thread that calls State.update while another execution is under
\* way starts no round of external queries of its own.
C11_SingleFlight ==
    [][\A t \in Threads : StartsQueries(t) =>
        \A u \in Threads \ {t} : ~InUpdate(u)]_vars

\* A step of the loop of a lone update that meets an id the table lacks.
InsertsNew ==
    /\ m_iter # << >>
    /\ m_iter' = Tail(m_iter)
    /\ Head(m_iter).job["JobId"] \notin JobIdsOf(m_jobs)

\* The draft the loop is at, as the caller handed it over.
DraftAsGiven == m_drafts[Len(m_drafts) - Len(m_iter) + 1]

\* C16: a draft that brings a timestamp of its own is inserted with it, also
\* when the call names a default timestamp; the default is for the drafts
\* that bring none.
C16_DraftTimestampFirst ==
    [][InsertsNew =>
        EntryOf(m_jobs', Head(m_iter).job["JobId"]).ts =
            (IF DraftAsGiven.ts # NoTimestamp THEN DraftAsGiven.ts ELSE m_t)]_vars

\* C17: the record stored after a draft met its id holds the draft's value
\* for every key of the draft, the old value for every other key, and no
\* further key; no step of a merge removes an id or a key.
C17_FieldLevelUnion ==
    [][/\ MergesIntoExisting =>
            LET d == Head(m_iter).job
                r == EntryOf(m_jobs, d["JobId"]).job
                new == EntryOf(m_jobs', d["JobId"]).job
            IN  /\ DOMAIN new = DOMAIN d \cup DOMAIN r
                /\ \A k \in DOMAIN d : new[k] = d[k]
                /\ \A k \in DOMAIN r \ DOMAIN d : new[k] = r[k]
        /\ Len(m_jobs') >= Len(m_jobs)
        /\ \A i \in 1..Len(m_jobs) :
              /\ m_jobs'[i].job["JobId"] = m_jobs[i].job["JobId"]
              /\ DOMAIN m_jobs[i].job \subseteq DOMAIN m_jobs'[i].job]_vars

\* A State was merged into a record that held a JobName and none, and a
\* JobName into a record that held a State and none: both records now hold
\* the three keys.
C17_Witness ==
    /\ m_round = 1 /\ m_iter = << >>
    /\ \E i \in 1..Len(m_drafts) : m_drafts[i].job = [JobId |-> "100", State |-> "RUNNING"]
    /\ Len(m_before) = 1
    /\ m_before[1].job = [JobId |-> "100", JobName |-> "clean-en-wide"]
    /\ m_jobs[1].job = [JobId |-> "100", JobName |-> "clean-en-wide", State |-> "RUNNING"]

\* A thread takes a step of State.update that comes before the commit.
StepsBeforeCommit(t) == pc[t] \in {"new", "scheduled", "accounting"} /\ pc'[t] # pc[t]

\* C19: an exception leaves State.update only from a step before the commit,
\* and no step before the commit (the scratch merges among them) changes
\* state.jobs or state.last_update: the refresh that fails has written nothing.
C19_AtomicAbort ==
    [][\A t \in Threads :
        /\ StepsBeforeCommit(t) => (jobs' = jobs /\ last_update' = last_update)
        /\ (pc'[t] = "raised" /\ pc[t] # "raised") => (StepsBeforeCommit(t) /\ ~wrote[t])]_vars

\* squeue failed in a refresh whose scratch table had taken in a job of the
\* log that state.jobs does not hold.
C19_Witness ==
    \E t \in Threads :
        /\ pc[t] = "raised" /\ failed[t] = "current_jobs"
        /\ JobIdsOf(active_jobs[t]) \ JobIdsOf(jobs) # {}

\* One request has been served and no other has arrived.
OneRefreshDone ==
    \E t \in Threads :
        /\ pc[t] \in {"respond", "write", "done"}
        /\ \A u \in Threads \ {t} : pc[u] = "new"

\* C20: no line of the log is left behind: a line that the next refresh will
\* not read any more (its second lies before state.last_update) was read by
\* the bootstrap or by a refresh, so its job is in state.jobs.
C20_NoSubmissionMissed ==
    OneRefreshDone =>
        \A i \in 1..Len(log) :
            log[i].timestamp < Strftime(last_update) => log[i].job_id \in JobIdsOf(jobs)

\* State.get_job is called with an id.
Looks(job_id) == g_id' = job_id /\ g_outcome' # "idle"

\* C15: a lookup changes neither state.jobs nor state.last_update and moves
\* no request into a query; a lookup of an id that state.jobs does not hold
\* ends without an exception.
C15_MissIsNotAnError ==
    [][\A job_id \in LookupIds : Looks(job_id) =>
        /\ jobs' = jobs /\ last_update' = last_update /\ pc' = pc
        /\ job_id \notin JobIdsOf(jobs) => g_outcome' # "KeyError"]_vars

\* A bare numeric id, or <digits>_<digits>.
FullyResolved(id) ==
    \/ IsNumeric(id)
    \/ \E i \in 2..(Len(id) - 1) :
          /\ id[i] = "_"
          /\ IsNumeric(SubSeq(id, 1, i - 1))
          /\ IsNumeric(SubSeq(id, i + 1, Len(id)))

\* C12: whatever line or row a source delivers, every JobId its adapter
\* yields without raising is a bare number or <digits>_<digits>.
C12_FullyResolvedIds ==
    (p_done /\ ~p_out.raised) =>
        \A i \in 1..Len(p_out.out) : FullyResolved(p_out.out[i]["JobId"])

\* The task ids an array spec names.
TasksOf(items) == UNION {items[i].lo..items[i].hi : i \in 1..Len(items)}

\* What the log source is to yield for one task (or, with task 0, for a
\* submission without array): the id, the two paths and the command.
ExpectedOfLog(shape, id, task_text) ==
    [JobId |-> id,
     StdOut |-> IF shape.with_out
                THEN << "o" >> \o Str(shape.job) \o << "_" >> \o task_text ELSE << >>,
     StdErr |-> IF shape.with_err
                THEN << "e" >> \o Str(shape.job) \o << "_" >> \o task_text ELSE << >>,
     Command |-> ScriptArgs]

\* The id, the two paths and the command of a Job that was yielded.
YieldedOfLog(job) ==
    [JobId |-> job["JobId"], StdOut |-> job["StdOut"], StdErr |-> job["StdErr"],
     Command |-> job["Command"]]

\* C13: an array submission of the log yields, without raising, one Job per
\* task id of its spec and no other, each with JobId J_t, the paths with both
\* macros replaced, and the same Command.
C13_LogArrayExpansion ==
    (p_done /\ p_src = "log" /\ p_shape.kind = "array") =>
        /\ ~p_out.raised
        /\ {YieldedOfLog(p_out.out[i]) : i \in 1..Len(p_out.out)} =
              {ExpectedOfLog(p_shape, Composite(Str(p_shape.job), Str(t)), Str(t)) :
                  t \in TasksOf(p_shape.items)}

\* The JobIds the adapter yielded, in order.
YieldedIds == [i \in 1..Len(p_out.out) |-> p_out.out[i]["JobId"]]

\* C14: a row J[s-e] of sacct yields J_s .. J_e, a row J[s] yields J_s, a row
\* J_t yields J_t, a row J yields J, and a row with any other suffix yields
\* nothing; none raises.
C14_CollapsedRangeExpansion ==
    (p_done /\ p_src = "sacct") =>
        /\ ~p_out.raised
        /\ LET J == Str(p_shape.job)
               one == p_shape.items[1]
           IN  IF p_shape.kind = "plain" THEN YieldedIds = << J >>
               ELSE IF p_shape.kind = "task" THEN YieldedIds = << Composite(J, Str(one.lo)) >>
               ELSE IF p_shape.kind = "collapsed" /\ Len(p_shape.items) = 1 /\ p_shape.limit = 0
                    THEN /\ Len(YieldedIds) = one.hi - one.lo + 1
                         /\ \A i \in 1..Len(YieldedIds) :
                               YieldedIds[i] = Composite(J, Str(one.lo + i - 1))
               ELSE YieldedIds = << >>

\* sacct reported an array of more than one task in one row, and the adapter
\* yielded a Job for the first and for the last task.
C14_Witness ==
    /\ p_done /\ p_src = "sacct" /\ p_shape.kind = "collapsed"
    /\ Len(p_shape.items) = 1 /\ p_shape.limit = 0
    /\ p_shape.items[1].hi > p_shape.items[1].lo
    /\ Len(p_out.out) >= 2
    /\ p_out.out[1]["JobId"] = Composite(Str(p_shape.job), Str(p_shape.items[1].lo))
    /\ p_out.out[Len(p_out.out)]["JobId"] = Composite(Str(p_shape.job), Str(p_shape.items[1].hi))

\* C18: a submission without array yields one Job with the bare id, StdOut
\* from the stdout template and StdErr from the stderr template, the job-id
\* macro replaced and the task-id macro left as it is.
C18_NonArraySubmission ==
    (p_done /\ p_src = "log" /\ p_shape.kind = "plain") =>
        /\ ~p_out.raised
        /\ Len(p_out.out) = 1
        /\ YieldedOfLog(p_out.out[1]) = ExpectedOfLog(p_shape, Str(p_shape.job), MacroTask)

\* filter has just returned.
Filtered == ~f_done /\ f_done'

\* C23: filter called without a timestamp returns exactly the entries whose
\* dict the predicate accepts, each with the timestamp it has in the source
\* table, and the source table is as it was.
C23_FilterPreservesTimestamps ==
    [][(Filtered /\ f_timestamp = NoTimestamp) =>
        /\ f_jobs' = f_jobs
        /\ DistinctIds(f_out')
        /\ {f_out'[i] : i \in 1..Len(f_out')}
              = {f_jobs[i] : i \in {j \in 1..Len(f_jobs) : f_jobs[j].job \in f_op}}]_vars

\* A filter without timestamp that kept a stamped entry and dropped another.
C23_Witness ==
    /\ f_done
    /\ f_timestamp = NoTimestamp
    /\ 0 < Len(f_out) /\ Len(f_out) < Len(f_jobs)
    /\ \E i \in 1..Len(f_out) : f_out[i].ts = 0

\* No thread is between the first and the last step of State.update.
NoRefreshInFlight == \A t \in Threads : ~InUpdate(t)

\* Whenever no refresh is in flight, no entry of state.jobs is stamped later
\* than state.last_update.
StampedInTime ==
    NoRefreshInFlight => \A i \in 1..Len(jobs) : jobs[i].ts <= last_update

\* C22: state.last_update never decreases, and whenever no refresh is in
\* flight no entry of state.jobs is stamped later than state.last_update.
C22_RefreshClock ==
    [][/\ last_update' >= last_update
       /\ StampedInTime
       /\ StampedInTime']_vars

\* The polling client's request is answered.
Polls == pc[Poller] = "respond" /\ pc'[Poller] = "write"

\* The ids whose entry in table is not the one snapshot holds.
ChangedSince(table, snapshot) ==
    {table[i].job["JobId"] : i \in {j \in 1..Len(table) :
        \/ table[j].job["JobId"] \notin JobIdsOf(snapshot)
        \/ EntryOf(snapshot, table[j].job["JobId"]) # table[j]}}

\* C21: when the client asks with the timestamp of the answer it got last,
\* every job whose entry was changed or inserted since that answer was
\* enumerated is in the new answer.  Stated for a client that is alone and
\* for a refresh that read a later clock than the timestamp asked with.
C21_PollingLosesNoChange ==
    [][(Polls /\ c_since # NoTimestamp /\ last_update > c_since) =>
        ChangedSince(jobs, c_table) \subseteq response'[Poller].jobs]_vars

====
